---------------------------- MODULE Spec2Model ----------------------------
(***************************************************************************)
(* Model of the radiation interception functions of                        *)
(* light_interception_pub.py.                                              *)
(*                                                                         *)
(* The functions are called one at a time, so the state machine records    *)
(* one call at a time: the function called, its arguments and what the     *)
(* call produced (a value or the exception it raised).  A species list is   *)
(* an object of the caller's, passed by reference: the caller may hold on   *)
(* to it and pass it again, so what a call leaves in it is state too.       *)
(*                                                                         *)
(* Numbers.  A Python/numpy float is modelled as a fraction                *)
(* [n |-> numerator, d |-> denominator] computed exactly, extended with    *)
(* the IEEE special values numpy produces instead of raising:              *)
(*      n/d with d > 0, n # 0      a finite non-zero number                *)
(*      0/1 and 0/-1               +0.0 and -0.0                           *)
(*      1/0 and -1/0               +inf and -inf                           *)
(*      0/0                        nan                                     *)
(* Rounding is not modelled: arithmetic is exact.  math.exp is kept exact  *)
(* by measuring extinction coefficients in units of ln 2, so that          *)
(* math.exp(-k * LAI) is 2^(-k*LAI) for the integer products the inputs    *)
(* are drawn from.  Quantities proportional to k*LAI only occur in ratios  *)
(* and in comparisons with zero, which the unit does not change.           *)
(*                                                                         *)
(* Two places depend on what the doubles do and are modelled accordingly:  *)
(* the angles of the integration loop of rad_ext_coeff_black_diff are the  *)
(* 53-bit doubles themselves, rounded as IEEE 754 rounds, and the          *)
(* irrational values of the solar geometry functions are terms in which    *)
(* the cosine of the double nearest pi/2 is not zero.                      *)
(***************************************************************************)
EXTENDS Integers, Sequences, FiniteSets, TLC

VARIABLES fn, args, outcome, caller

vars == <<fn, args, outcome, caller>>

---------------------------------------------------------------------------
(* Exact arithmetic on extended fractions                                  *)

Abs(i) ==
    IF i < 0 THEN -i ELSE i

Sgn(i) ==
    IF i < 0 THEN -1 ELSE IF i > 0 THEN 1 ELSE 0

RECURSIVE GCD(_, _)
GCD(a, b) ==
    IF b = 0 THEN a ELSE GCD(b, a % b)

RECURSIVE Pow2(_)
Pow2(e) ==
    IF e = 0 THEN 1 ELSE 2 * Pow2(e - 1)

NaN == [n |-> 0, d |-> 0]

IsNaN(x) == x.n = 0 /\ x.d = 0

IsInf(x) == x.n # 0 /\ x.d = 0

IsZero(x) == x.n = 0 /\ x.d # 0

\* the sign bit of a float: of the numerator, or of the denominator for a zero
Sign(x) ==
    IF x.n # 0 THEN Sgn(x.n) ELSE Sgn(x.d)

\* the float of sign s and magnitude an/ad (an, ad >= 0)
Make(s, an, ad) ==
    IF an = 0 /\ ad = 0 THEN NaN
    ELSE IF an = 0 THEN [n |-> 0, d |-> s]
    ELSE IF ad = 0 THEN [n |-> s, d |-> 0]
    ELSE LET g == GCD(an, ad) IN [n |-> s * (an \div g), d |-> ad \div g]

\* the float of the fraction num/den of two integers, den # 0
Frac(num, den) ==
    Make(IF num = 0 THEN 1 ELSE Sgn(num) * Sgn(den), Abs(num), Abs(den))

\* the float of a Python int
Num(i) == Frac(i, 1)

Neg(x) ==
    IF IsNaN(x) THEN NaN
    ELSE IF x.n = 0 THEN [n |-> 0, d |-> -x.d]
    ELSE [n |-> -x.n, d |-> x.d]

Mul(x, y) ==
    IF IsNaN(x) \/ IsNaN(y) THEN NaN
    ELSE LET g1 == GCD(Abs(x.n), Abs(y.d))
             g2 == GCD(Abs(y.n), Abs(x.d))
             h1 == IF g1 = 0 THEN 1 ELSE g1
             h2 == IF g2 = 0 THEN 1 ELSE g2
         IN Make(Sign(x) * Sign(y),
                 (Abs(x.n) \div h1) * (Abs(y.n) \div h2),
                 (Abs(x.d) \div h2) * (Abs(y.d) \div h1))

\* 1/x as numpy computes it: 1/0 is inf, 1/inf is 0, no exception
Inv(x) ==
    IF IsNaN(x) THEN NaN ELSE Make(Sign(x), Abs(x.d), Abs(x.n))

\* x / y of numpy floats: a zero divisor gives inf or nan (with a warning only)
Div(x, y) ==
    Mul(x, Inv(y))

Add(x, y) ==
    IF IsNaN(x) \/ IsNaN(y) THEN NaN
    ELSE IF IsInf(x) /\ IsInf(y) THEN (IF x.n = y.n THEN x ELSE NaN)
    ELSE IF IsInf(x) THEN x
    ELSE IF IsInf(y) THEN y
    ELSE IF IsZero(x) /\ IsZero(y) THEN (IF x.d = y.d THEN x ELSE [n |-> 0, d |-> 1])
    ELSE LET dx == Abs(x.d)
             dy == Abs(y.d)
             g == GCD(dx, dy)
             num == x.n * (dy \div g) + y.n * (dx \div g)
         IN Make(IF num = 0 THEN 1 ELSE Sgn(num), Abs(num), (dx \div g) * dy)

Sub(x, y) ==
    Add(x, Neg(y))

\* x < y, x == y, x > y of floats: every comparison with nan is false
Lt(x, y) ==
    /\ ~IsNaN(x)
    /\ ~IsNaN(y)
    /\ IF IsInf(x) \/ IsInf(y)
       THEN (IsInf(x) /\ x.n < 0 /\ ~(IsInf(y) /\ y.n < 0))
            \/ (IsInf(y) /\ y.n > 0 /\ ~(IsInf(x) /\ x.n > 0))
       ELSE x.n * Abs(y.d) < y.n * Abs(x.d)

Eq(x, y) ==
    /\ ~IsNaN(x)
    /\ ~IsNaN(y)
    /\ IF IsInf(x) \/ IsInf(y)
       THEN x = y
       ELSE x.n * Abs(y.d) = y.n * Abs(x.d)

Gt(x, y) ==
    Lt(y, x)

Le(x, y) ==
    Lt(x, y) \/ Eq(x, y)

\* truth value of a number: only the zeros are false (nan and inf are true)
Truthy(x) ==
    ~IsZero(x)

Zero == Num(0)

One == Num(1)

\* math.exp(x) for x a whole number of units of ln 2: 2^x
exp(x) ==
    IF x.n >= 0 THEN Frac(Pow2(x.n), 1) ELSE Frac(1, Pow2(-x.n))

\* ndarray.sum(): the elements added in index order
RECURSIVE SumTo(_, _)
SumTo(a, m) ==
    IF m = 0 THEN Zero
    ELSE IF m = 1 THEN a[1]
    ELSE Add(SumTo(a, m - 1), a[m])

sum(a) ==
    SumTo(a, Len(a))

---------------------------------------------------------------------------
(* Results of a call                                                       *)

Returned(v) == [status |-> "ok", value |-> v]

Raised(e) == [status |-> e, value |-> <<>>]


---------------------------------------------------------------------------
(* height_weight_fact                                                      *)

\* the value of the chain (height_dom and dominant_fact and suppressed_fact
\* and number_species): its first false operand, else its last operand
and_chain(height_dom, dominant_fact, suppressed_fact, number_species) ==
    IF ~Truthy(height_dom) THEN height_dom
    ELSE IF ~Truthy(dominant_fact) THEN dominant_fact
    ELSE IF ~Truthy(suppressed_fact) THEN suppressed_fact
    ELSE Num(number_species)

\* assert (height_dom and dominant_fact and suppressed_fact and
\*         number_species) > 0
precondition(height_dom, dominant_fact, suppressed_fact, number_species) ==
    Gt(and_chain(height_dom, dominant_fact, suppressed_fact, number_species), Zero)

\* shorter() without its division by (0 - 1)
shorter_undivided(height_dom, suppressed_fact) ==
    Add(Mul(Sub(height_dom, One), Sub(suppressed_fact, One)), One)

\* the branch for a species shorter than the canopy average
shorter(height_dom, suppressed_fact) ==
    Add(Div(Mul(Sub(height_dom, One), Sub(suppressed_fact, One)), Num(0 - 1)), One)

\* the branch for a species taller than the canopy average
taller(height_dom, dominant_fact, number_species) ==
    Add(One, Mul(Div(Sub(height_dom, One), Num(number_species - 1)),
                 Sub(dominant_fact, One)))

\* np: the float arguments are numpy float64 (as rad_intercpt_cycles passes
\* them), whose division by zero gives inf or nan; Python's own floats raise
height_weight_fact(height_dom, dominant_fact, suppressed_fact, number_species, np) ==
    IF ~precondition(height_dom, dominant_fact, suppressed_fact, number_species)
    THEN Raised("AssertionError")
    ELSE IF Eq(height_dom, One) THEN Returned(One)
    ELSE IF Lt(height_dom, One) THEN Returned(shorter(height_dom, suppressed_fact))
    ELSE IF ~np /\ number_species - 1 = 0 THEN Raised("ZeroDivisionError")
    ELSE Returned(taller(height_dom, dominant_fact, number_species))

---------------------------------------------------------------------------
(* rad_intercpt_cycles                                                     *)

\* the element of a one-element set: Only({F(s) : s \in {v}}) is F(v) with
\* the local variables v computed once, as an assignment computes them
Only(S) ==
    CHOOSE r \in S : TRUE

RECURSIVE ProdTo(_, _)
ProdTo(a, m) ==
    IF m = 0 THEN One ELSE Mul(ProdTo(a, m - 1), a[m])

\* the loop that reads and stores the inputs
read_inputs(crop_list) ==
    LET number_species == Len(crop_list)
        k(i) == Num(crop_list[i][1])
        lai(i) == Num(crop_list[i][2])
    IN [number_species |-> number_species,
        extinction_coeff |-> [i \in 1..number_species |-> k(i)],
        leaf_area_index |-> [i \in 1..number_species |-> lai(i)],
        height |-> [i \in 1..number_species |-> Num(crop_list[i][3])],
        transm_rad |-> [i \in 1..number_species |-> exp(Mul(Neg(k(i)), lai(i)))],
        rad_intercpt_dom |-> [i \in 1..number_species |->
                                 Sub(One, exp(Mul(Neg(k(i)), lai(i))))],
        k_lai_prod |-> [i \in 1..number_species |-> Mul(k(i), lai(i))]]

\* the height multiplied by number_species, not divided by the heights' sum
height_dominance_not_divided(number_species, height, i) ==
    Mul(Num(number_species), height[i])

\* the height as a share of the heights' sum, not multiplied by number_species
height_dominance_not_scaled(number_species, height, i) ==
    Div(height[i], sum(height))

\* height_dom[i] = number_species * height[i] / height.sum()
height_dominance(number_species, height, i) ==
    Div(Mul(Num(number_species), height[i]), sum(height))

\* the loop of the total transmittance and the height dominance factors,
\* and the total interception
totals(s) ==
    [total_transm |-> ProdTo(s.transm_rad, s.number_species),
     height_dom |-> [i \in 1..s.number_species |->
                        height_dominance(s.number_species, s.height, i)],
     total_interception |-> Sub(One, ProdTo(s.transm_rad, s.number_species))]
    @@ s

\* only the species listed after the ith
species_after_ith(number_species, i) ==
    SelectSeq([j \in 1..number_species |-> j], LAMBDA j : j > i)

\* all_species = range(number_species); all_species.pop(i): the list without
\* the element at position i
all_species_but_ith(number_species, i) ==
    LET all_species == [j \in 1..number_species |-> j]
    IN SubSeq(all_species, 1, i - 1) \o SubSeq(all_species, i + 1, number_species)

\* crop_list as all_species.pop(i) would leave it if all_species were the
\* argument itself: without its first species
crop_list_popped(crop_list) ==
    SubSeq(crop_list, 2, Len(crop_list))

\* crop_list as the loop of lines 326-334 leaves it: all_species is a list of
\* its own, made by range(), so the pop takes nothing from crop_list
crop_list_after_pops(crop_list) ==
    crop_list

\* the product taken over every species, the ith included
total_transm_of_all_sp(transm_rad, i) ==
    ProdTo(transm_rad, Len(transm_rad))

\* the product of transm_rad over all species but the ith, in index order
total_transm_but_ith_sp(transm_rad, i) ==
    LET others == all_species_but_ith(Len(transm_rad), i)
    IN ProdTo([j \in 1..Len(others) |-> transm_rad[others[j]]], Len(others))

\* the loops of transm_rad_others and of rad_intercpt_suppr
suppressed(s) ==
    [transm_rad_others |-> [i \in 1..s.number_species |->
                               total_transm_but_ith_sp(s.transm_rad, i)],
     rad_intercpt_suppr |-> [i \in 1..s.number_species |->
                                Mul(s.rad_intercpt_dom[i],
                                    total_transm_but_ith_sp(s.transm_rad, i))]]
    @@ s

\* dominant_fact[i] and suppressed_fact[i] =
\*   rad_intercpt_x[i] / total_interception * k_lai_prod.sum() / k_lai_prod[i]
weight_extreme(rad_intercpt_x, total_interception, k_lai_prod, i) ==
    Div(Mul(Div(rad_intercpt_x[i], total_interception), sum(k_lai_prod)),
        k_lai_prod[i])

\* the two extreme weighing factors of every species
extremes(s) ==
    [dominant_fact |-> [i \in 1..s.number_species |->
         weight_extreme(s.rad_intercpt_dom, s.total_interception, s.k_lai_prod, i)],
     suppressed_fact |-> [i \in 1..s.number_species |->
         weight_extreme(s.rad_intercpt_suppr, s.total_interception, s.k_lai_prod, i)]]
    @@ s

\* the calls of height_weight_fact, one per species, with numpy floats
weights(s) ==
    [weight |-> [i \in 1..s.number_species |->
         height_weight_fact(s.height_dom[i], s.dominant_fact[i],
                            s.suppressed_fact[i], s.number_species, TRUE)]]
    @@ s

\* k_lai_prod_adj[i] = extinction_coeff[i] * leaf_area_index[i] * hght_wght_fct[i]
adjusted_products(s) ==
    [hght_wght_fct |-> [i \in 1..s.number_species |-> s.weight[i].value],
     k_lai_prod_adj |-> [i \in 1..s.number_species |->
         Mul(Mul(s.extinction_coeff[i], s.leaf_area_index[i]), s.weight[i].value)]]
    @@ s

\* adjusted_weight() without the renormalisation of the weight
adjusted_weight_not_renormalised(hght_wght_fct, k_lai_prod_adj, k_lai_prod, i) ==
    hght_wght_fct[i]

\* hght_wght_fct_adj[i] = hght_wght_fct[i] / k_lai_prod_adj.sum() * k_lai_prod.sum()
adjusted_weight(hght_wght_fct, k_lai_prod_adj, k_lai_prod, i) ==
    Mul(Div(hght_wght_fct[i], sum(k_lai_prod_adj)), sum(k_lai_prod))

adjusted_weights(s) ==
    [hght_wght_fct_adj |-> [i \in 1..s.number_species |->
         adjusted_weight(s.hght_wght_fct, s.k_lai_prod_adj, s.k_lai_prod, i)]]
    @@ s

\* rad_intercpt[i] = total_interception * hght_wght_fct_adj[i] *
\*                   k_lai_prod[i] / k_lai_prod.sum()
species_interception(total_interception, hght_wght_fct_adj, k_lai_prod, i) ==
    Div(Mul(Mul(total_interception, hght_wght_fct_adj[i]), k_lai_prod[i]),
        sum(k_lai_prod))

\* the last loop, of the adjusted weights and the interceptions
interceptions(s) ==
    Only({[i \in 1..t.number_species |->
              species_interception(t.total_interception, t.hght_wght_fct_adj,
                                   t.k_lai_prod, i)] :
          t \in {adjusted_weights(s)}})

\* every local array of rad_intercpt_cycles up to the calls of
\* height_weight_fact
cycles_state(crop_list) ==
    Only({Only({Only({Only({weights(s4) :
        s4 \in {extremes(s3)}}) :
        s3 \in {suppressed(s2)}}) :
        s2 \in {totals(s1)}}) :
        s1 \in {read_inputs(crop_list)}})

\* the species whose call of height_weight_fact raises
failed_weights(s) ==
    {i \in 1..s.number_species : s.weight[i].status # "ok"}

\* the exception of the first call of height_weight_fact that raises leaves
\* rad_intercpt_cycles; else the last loop runs and rad_intercpt is returned
rad_intercpt_cycles(crop_list) ==
    Only({IF failed_weights(s) # {}
          THEN Raised(s.weight[CHOOSE i \in failed_weights(s) :
                                   \A j \in failed_weights(s) : i <= j].status)
          ELSE Only({Returned(interceptions(t)) : t \in {adjusted_products(s)}}) :
          s \in {cycles_state(crop_list)}})

---------------------------------------------------------------------------
(* rad_intercpt_wallace                                                    *)

\* wallace_arity_ok() accepting more than two species
wallace_arity_at_least_two(crop_list) ==
    /\ Len(crop_list) >= 2
    /\ Len(crop_list[1]) = 3
    /\ Len(crop_list[2]) = 3

\* the three asserts on the shape of the input
wallace_arity_ok(crop_list) ==
    /\ Len(crop_list) = 2
    /\ Len(crop_list[1]) = 3
    /\ Len(crop_list[2]) = 3

\* the height fraction taken of the whole dominant interception
wallace_interception_dominant_added(rad_intercpt_suppr, height_fraction, rad_intercpt_dom) ==
    Add(rad_intercpt_suppr, Mul(height_fraction, rad_intercpt_dom))

\* wallace_interception() without the suppressed interception
wallace_interception_dominant_only(rad_intercpt_suppr, height_fraction, rad_intercpt_dom) ==
    Mul(height_fraction, rad_intercpt_dom)

\* rad_intercpt = rad_intercpt_suppr + height_fraction *
\*                (rad_intercpt_dom - rad_intercpt_suppr)
wallace_interception(rad_intercpt_suppr, height_fraction, rad_intercpt_dom) ==
    Add(rad_intercpt_suppr,
        Mul(height_fraction, Sub(rad_intercpt_dom, rad_intercpt_suppr)))

\* the arguments are Python's own numbers: a zero divisor raises
rad_intercpt_wallace(crop_list) ==
    IF ~wallace_arity_ok(crop_list) THEN Raised("AssertionError")
    ELSE
    LET extinction_coeff1 == Num(crop_list[1][1])
        extinction_coeff2 == Num(crop_list[2][1])
        leaf_area_index1 == Num(crop_list[1][2])
        leaf_area_index2 == Num(crop_list[2][2])
        height1 == Num(crop_list[1][3])
        height2 == Num(crop_list[2][3])
        transm_rad1 == exp(Mul(Neg(extinction_coeff1), leaf_area_index1))
        transm_rad2 == exp(Mul(Neg(extinction_coeff2), leaf_area_index2))
        rad_intercpt_dom1 == Sub(One, transm_rad1)
        rad_intercpt_dom2 == Sub(One, transm_rad2)
        height_fraction1 == Div(height1, Add(height1, height2))
        height_fraction2 == Div(height2, Add(height1, height2))
        rad_intercpt_suppr1 == Mul(rad_intercpt_dom1, transm_rad2)
        rad_intercpt_suppr2 == Mul(rad_intercpt_dom2, transm_rad1)
        rad_intercpt1 == wallace_interception(rad_intercpt_suppr1,
                             height_fraction1, rad_intercpt_dom1)
        rad_intercpt2 == wallace_interception(rad_intercpt_suppr2,
                             height_fraction2, rad_intercpt_dom2)
    IN IF IsZero(Add(height1, height2)) THEN Raised("ZeroDivisionError")
       ELSE Returned(<<rad_intercpt1, rad_intercpt2>>)

---------------------------------------------------------------------------
(* rad_intercpt_apsim                                                      *)

\* apsim_share() returning the stand-alone interception of the species
apsim_share_stand_alone(tot_rad_intercpt, ext_coeff_leaf_area_index_prod, i) ==
    Sub(One, exp(Neg(ext_coeff_leaf_area_index_prod[i])))

\* apsim_share() dividing by the number of species
apsim_share_by_count(tot_rad_intercpt, ext_coeff_leaf_area_index_prod, i) ==
    Div(Mul(tot_rad_intercpt, ext_coeff_leaf_area_index_prod[i]),
        Num(Len(ext_coeff_leaf_area_index_prod)))

\* tot_rad_intercpt * ext_coeff_leaf_area_index_prod[i] /
\*   ext_coeff_leaf_area_index_prod.sum()
apsim_share(tot_rad_intercpt, ext_coeff_leaf_area_index_prod, i) ==
    Div(Mul(tot_rad_intercpt, ext_coeff_leaf_area_index_prod[i]),
        sum(ext_coeff_leaf_area_index_prod))

\* the share assigned whatever rad_intercpt_temp[i] is
apsim_interception_unguarded(rad_intercpt_temp, tot_rad_intercpt, ext_coeff_leaf_area_index_prod, i) ==
    apsim_share(tot_rad_intercpt, ext_coeff_leaf_area_index_prod, i)

\* if rad_intercpt_temp[i] > 0: the share; else: 0
apsim_interception(rad_intercpt_temp, tot_rad_intercpt, ext_coeff_leaf_area_index_prod, i) ==
    IF Gt(rad_intercpt_temp[i], Zero)
    THEN apsim_share(tot_rad_intercpt, ext_coeff_leaf_area_index_prod, i)
    ELSE Zero

rad_intercpt_apsim(crop_list) ==
    LET number_species == Len(crop_list)
        ext_coeff_leaf_area_index_prod == [i \in 1..number_species |->
            Mul(Num(crop_list[i][1]), Num(crop_list[i][2]))]
        transm_rad_temp == [i \in 1..number_species |->
            exp(Mul(Neg(Num(crop_list[i][1])), Num(crop_list[i][2])))]
        cum_transm_rad == ProdTo(transm_rad_temp, number_species)
        rad_intercpt_temp == [i \in 1..number_species |->
            Sub(One, transm_rad_temp[i])]
        tot_rad_intercpt == Sub(One, cum_transm_rad)
        rad_intercpt_list == [i \in 1..number_species |->
            apsim_interception(rad_intercpt_temp, tot_rad_intercpt,
                               ext_coeff_leaf_area_index_prod, i)]
    IN Returned(rad_intercpt_list)

---------------------------------------------------------------------------
(* Irrational values of the solar geometry functions                       *)
(*                                                                         *)
(* A cosine of a non-zero angle and a power with a fractional exponent are *)
(* irrational; they are kept as terms over fractions, simplified only by   *)
(* identities that hold of the floats as well (x * 1, x * 0, x ** 1,        *)
(* 0 ** x and 1 ** x for x > 0, cos(0)), so that two results are equal     *)
(* exactly when their terms are.  In particular math.cos of the double     *)
(* nearest pi/2 stays the term it is: it is 6.1e-17, not 0.                *)

IsFraction(x) ==
    "n" \in DOMAIN x

\* angle * DEG_TO_RAD, with DEG_TO_RAD = math.pi / 180.: the term counts how
\* many times the number q was multiplied by it
times_deg_to_rad(angle) ==
    IF IsFraction(angle)
    THEN (IF IsZero(angle) THEN angle
          ELSE [op |-> "times_deg_to_rad", q |-> angle, times |-> 1])
    ELSE [angle EXCEPT !.times = @ + 1]

\* angle >= 0
angle_ge_zero(angle) ==
    IF IsFraction(angle) THEN Le(Zero, angle) ELSE Le(Zero, angle.q)

\* the cosine of the angle as a real number: zero at 90 degrees
cos_of_real_angle(angle) ==
    IF IsFraction(angle) /\ IsZero(angle) THEN One
    ELSE IF angle = [op |-> "times_deg_to_rad", q |-> Num(90), times |-> 1] THEN Zero
    ELSE [op |-> "cos", of |-> angle]

\* math.cos(angle)
cos(angle) ==
    IF IsFraction(angle) /\ IsZero(angle) THEN One
    ELSE [op |-> "cos", of |-> angle]

\* x * y of finite floats
real_mul(x, y) ==
    IF IsFraction(x) /\ IsFraction(y) THEN Mul(x, y)
    ELSE IF x = Zero \/ y = Zero THEN Zero
    ELSE IF x = One THEN y
    ELSE IF y = One THEN x
    ELSE [op |-> "mul", l |-> x, r |-> y]

\* x / y of Python floats, y not zero
real_div(x, y) ==
    IF IsFraction(x) /\ IsFraction(y) THEN Div(x, y)
    ELSE [op |-> "div", l |-> x, r |-> y]

\* x + y of finite floats
real_add(x, y) ==
    IF IsFraction(x) /\ IsFraction(y) THEN Add(x, y)
    ELSE IF x = Zero THEN y
    ELSE IF y = Zero THEN x
    ELSE [op |-> "add", l |-> x, r |-> y]

\* x - y of finite floats
real_sub(x, y) ==
    IF IsFraction(x) /\ IsFraction(y) THEN Sub(x, y)
    ELSE [op |-> "sub", l |-> x, r |-> y]

\* base * exponent, where base ** exponent is meant
real_pow_as_product(base, exponent) ==
    real_mul(base, exponent)

\* base ** exponent for 0 <= base <= 1 and exponent > 0
real_pow(base, exponent) ==
    IF exponent = One \/ base = Zero \/ base = One THEN base
    ELSE [op |-> "pow", base |-> base, exponent |-> exponent]

\* whether the float is 0.0: the terms are of operands that are not negative;
\* no double is an odd multiple of pi/2, so a cosine is never 0.0, and a power
\* term has a base strictly between 0 and 1 and an exponent of the order of 1
RECURSIVE is_zero(_)
is_zero(x) ==
    IF IsFraction(x) THEN IsZero(x)
    ELSE CASE x.op = "mul" -> is_zero(x.l) \/ is_zero(x.r)
           [] x.op = "add" -> is_zero(x.l) /\ is_zero(x.r)
           [] x.op = "div" -> is_zero(x.l)
           [] x.op = "sub" -> x.l = x.r
           [] OTHER -> FALSE

---------------------------------------------------------------------------
(* opt_air_mass, solar_beam_fraction, solar_diffuse_fraction               *)

SEA_LEVEL_ATM_PRSSR == Frac(1013, 10)

\* the pressure assert with 38 kPa let in
air_mass_precondition_from_38(atm_press, solar_zenith_angle) ==
    /\ Le(atm_press, SEA_LEVEL_ATM_PRSSR) /\ Le(Num(38), atm_press)
    /\ angle_ge_zero(solar_zenith_angle)

\* assert atm_press <= SEA_LEVEL_ATM_PRSSR and atm_press > 38
\* assert solar_zenith_angle >= 0
air_mass_precondition(atm_press, solar_zenith_angle) ==
    /\ Le(atm_press, SEA_LEVEL_ATM_PRSSR) /\ Gt(atm_press, Num(38))
    /\ angle_ge_zero(solar_zenith_angle)

\* solar_zenith_angle *= DEG_TO_RAD
\* return atm_press / (SEA_LEVEL_ATM_PRSSR * math.cos(solar_zenith_angle))
opt_air_mass(atm_press, solar_zenith_angle) ==
    IF ~air_mass_precondition(atm_press, solar_zenith_angle)
    THEN Raised("AssertionError")
    ELSE Returned(real_div(atm_press,
                           real_mul(SEA_LEVEL_ATM_PRSSR,
                                    cos(times_deg_to_rad(solar_zenith_angle)))))

\* assert solar_zenith_angle >= 0 and solar_zenith_angle <= 90
\* assert atm_transmittance >= 0 and atm_transmittance <= 1
fraction_precondition(solar_zenith_angle, atm_transmittance) ==
    /\ Le(Zero, solar_zenith_angle) /\ Le(solar_zenith_angle, Num(90))
    /\ Le(Zero, atm_transmittance) /\ Le(atm_transmittance, One)

\* the beam fraction without its cosine
beam_fraction_without_cosine(atm_transmittance, optical_air_mass, solar_zenith_angle) ==
    real_pow(atm_transmittance, optical_air_mass)

\* solar_perpend_frac * math.cos(solar_zenith_angle), with
\* solar_perpend_frac = atm_transmittance ** optical_air_mass
beam_fraction(atm_transmittance, optical_air_mass, solar_zenith_angle) ==
    real_mul(real_pow(atm_transmittance, optical_air_mass), cos(solar_zenith_angle))

\* 0.3 * (1 - atm_transmittance ** optical_air_mass) * math.cos(solar_zenith_angle)
diffuse_fraction(atm_transmittance, optical_air_mass, solar_zenith_angle) ==
    real_mul(real_mul(Frac(3, 10),
                      real_sub(One, real_pow(atm_transmittance, optical_air_mass))),
             cos(solar_zenith_angle))

\* the angle is multiplied by DEG_TO_RAD here, and the product is handed to
\* opt_air_mass, which multiplies it again
solar_beam_fraction(atm_press, solar_zenith_angle, atm_transmittance) ==
    IF ~fraction_precondition(solar_zenith_angle, atm_transmittance)
    THEN Raised("AssertionError")
    ELSE LET zenith_rad == times_deg_to_rad(solar_zenith_angle)
             optical_air_mass == opt_air_mass(atm_press, zenith_rad)
         IN IF optical_air_mass.status # "ok" THEN optical_air_mass
            ELSE Returned(beam_fraction(atm_transmittance, optical_air_mass.value,
                                        zenith_rad))

solar_diffuse_fraction(atm_press, solar_zenith_angle, atm_transmittance) ==
    IF ~fraction_precondition(solar_zenith_angle, atm_transmittance)
    THEN Raised("AssertionError")
    ELSE LET zenith_rad == times_deg_to_rad(solar_zenith_angle)
             optical_air_mass == opt_air_mass(atm_press, zenith_rad)
         IN IF optical_air_mass.status # "ok" THEN optical_air_mass
            ELSE Returned(diffuse_fraction(atm_transmittance, optical_air_mass.value,
                                           zenith_rad))

---------------------------------------------------------------------------
(* rad_ext_coeff_black_beam                                                *)

\* a >= 0 for an angle a in radians: a fraction, or one of the doubles of the
\* integration loop of rad_ext_coeff_black_diff, which are magnitudes
angle_not_negative(a) ==
    IF "n" \in DOMAIN a THEN Le(Zero, a) ELSE TRUE

\* the value of (solar_zenith_angle >= 0 and x_area_ratio): False, which
\* compares as 0, when the angle is negative, else x_area_ratio
beam_and_chain(solar_zenith_angle, x_area_ratio) ==
    IF ~angle_not_negative(solar_zenith_angle) THEN Zero ELSE x_area_ratio

\* assert (solar_zenith_angle >= 0 and x_area_ratio) >= 0
\* assert x_area_ratio >= 0
beam_precondition(solar_zenith_angle, x_area_ratio) ==
    /\ Le(Zero, beam_and_chain(solar_zenith_angle, x_area_ratio))
    /\ Le(Zero, x_area_ratio)

\* numerator / denominator, which is irrational: kept as the term
\* (x^2 + tan(angle)^2)^0.5 / (x + 1.774 * (x + 1.182)^-0.733) of its arguments;
\* the denominator is positive for x >= 0
beam_coefficient(solar_zenith_angle, x_area_ratio) ==
    [op |-> "rad_ext_coeff_black_beam",
     solar_zenith_angle |-> solar_zenith_angle,
     x_area_ratio |-> x_area_ratio]

rad_ext_coeff_black_beam(solar_zenith_angle, x_area_ratio) ==
    IF ~beam_precondition(solar_zenith_angle, x_area_ratio)
    THEN Raised("AssertionError")
    ELSE Returned(beam_coefficient(solar_zenith_angle, x_area_ratio))

---------------------------------------------------------------------------
(* IEEE doubles of the integration loop of rad_ext_coeff_black_diff          *)
(*                                                                         *)
(* The loop's exit test compares two angles that are equal as real numbers, *)
(* so rounding decides it.  The angles of the loop are therefore modelled   *)
(* as the doubles they are: a positive double below 2 is the whole number   *)
(* h * 2^40 + m * 2^20 + l of units of 2^-59, held as three limbs of 20 bits, *)
(* and a result is rounded to 53 significant bits, ties to even.           *)

Limb == Pow2(20)

\* the limbs brought back into 0..Limb-1, the carries (or borrows) moved up
carry(h, m, l) ==
    Only({Only({[h |-> h + (m1 - (m1 % Limb)) \div Limb, m |-> m1 % Limb,
                 l |-> l1 % Limb] :
                m1 \in {m + (l1 - (l1 % Limb)) \div Limb}}) :
          l1 \in {l}})

RECURSIVE bit_length(_)
bit_length(i) ==
    IF i = 0 THEN 0 ELSE 1 + bit_length(i \div 2)

\* the number of low bits of x that a double cannot hold
excess_bits(x) ==
    bit_length(x.h) - 13

\* x rounded to 53 significant bits, ties to even; rest: whether the exact
\* value lies above x (a remainder of a division)
round_to_double(x, rest) ==
    IF excess_bits(x) <= 0 THEN x
    ELSE Only({Only({LET half == P \div 2
                         odd == (x.l \div P) % 2 = 1
                         up == low > half \/ (low = half /\ (rest \/ odd))
                     IN carry(x.h, x.m, x.l - low + (IF up THEN P ELSE 0)) :
                     low \in {x.l % P}}) :
               P \in {Pow2(excess_bits(x))}})

\* x + y and x - y (x >= y) of doubles
double_add(x, y) ==
    Only({round_to_double(total, FALSE) :
          total \in {carry(a.h + b.h, a.m + b.m, a.l + b.l) : a \in {x}, b \in {y}}})

double_sub(x, y) ==
    Only({round_to_double(difference, FALSE) :
          difference \in {carry(a.h - b.h, a.m - b.m, a.l - b.l) : a \in {x}, b \in {y}}})

\* x / k of a double and a small whole number, by long division
double_div_int(x, k) ==
    Only({Only({Only({round_to_double([h |-> a.h \div k, m |-> t1 \div k,
                                       l |-> t2 \div k], t2 % k # 0) :
                      t2 \in {(t1 % k) * Limb + a.l}}) :
                t1 \in {(a.h % k) * Limb + a.m}}) :
          a \in {x}})

\* x > y of doubles
double_gt(x, y) ==
    \/ x.h > y.h
    \/ x.h = y.h /\ x.m > y.m
    \/ x.h = y.h /\ x.m = y.m /\ x.l > y.l

\* math.pi, the double 0x1.921fb54442d18p+1
pi == [h |-> 1647099, m |-> 345154, l |-> 858112]

---------------------------------------------------------------------------
(* rad_ext_coeff_black_diff                                                *)

\* the value of (x_area_ratio and leaf_area_index)
diff_and_chain(x_area_ratio, leaf_area_index) ==
    IF ~Truthy(x_area_ratio) THEN x_area_ratio ELSE leaf_area_index

\* assert (x_area_ratio and leaf_area_index) >= 0
diff_precondition(x_area_ratio, leaf_area_index) ==
    Le(Zero, diff_and_chain(x_area_ratio, leaf_area_index))

STEP_SIZE == 90

MAX_ANGLE == double_div_int(pi, 2)

diff_ang == double_div_int(MAX_ANGLE, STEP_SIZE)

\* 0.5 * diff_ang
diff_ang_center == double_div_int(diff_ang, 2)

\* angle = angle - diff_ang_center: the angle the iteration samples
sample_angle(angle) ==
    double_sub(angle, diff_ang_center)

\* the next angle without the centre added back
next_angle_center_dropped(angle) ==
    double_add(angle, diff_ang)

\* angle = angle + diff_ang_center + diff_ang, of the sampled angle
next_angle(angle) ==
    double_add(double_add(angle, diff_ang_center), diff_ang)

\* the break taken on equality of the doubles only
loop_exit_on_equality(angle) ==
    angle = double_add(MAX_ANGLE, diff_ang)

\* if angle > (MAX_ANGLE + diff_ang): break
loop_exit(angle) ==
    double_gt(angle, double_add(MAX_ANGLE, diff_ang))

\* the call is inside its while loop: its local variables are angle and, for
\* transm_diff, the angles sampled so far
in_loop(angle, samples) ==
    [status |-> "running", value |-> [angle |-> angle, samples |-> samples]]

\* the asserts, then the locals as the loop is entered: angle = diff_ang
diff_enter(x_area_ratio, leaf_area_index) ==
    IF ~diff_precondition(x_area_ratio, leaf_area_index)
    THEN Raised("AssertionError")
    ELSE in_loop(diff_ang, <<>>)

\* -math.log(transm_diff) / leaf_area_index, which is irrational: kept as the
\* term of the arguments and of the angles transm_diff was summed over
diff_coefficient(x_area_ratio, leaf_area_index, samples) ==
    [op |-> "rad_ext_coeff_black_diff",
     x_area_ratio |-> x_area_ratio,
     leaf_area_index |-> leaf_area_index,
     angles |-> samples]

\* the last line divides Python floats, which raises for a zero
\* leaf_area_index
diff_return(x_area_ratio, leaf_area_index, samples) ==
    IF IsZero(leaf_area_index) THEN Raised("ZeroDivisionError")
    ELSE Returned(diff_coefficient(x_area_ratio, leaf_area_index, samples))

\* one iteration of the while loop: the call of rad_ext_coeff_black_beam may
\* raise; the break leads to the return
diff_iteration(x_area_ratio, leaf_area_index, locals) ==
    Only({LET samples == Append(locals.samples, sampled)
              beam == rad_ext_coeff_black_beam(sampled, x_area_ratio)
          IN IF beam.status # "ok" THEN Raised(beam.status)
             ELSE Only({IF loop_exit(angle)
                        THEN diff_return(x_area_ratio, leaf_area_index, samples)
                        ELSE in_loop(angle, samples) :
                        angle \in {next_angle(sampled)}}) :
          sampled \in {sample_angle(locals.angle)}})

---------------------------------------------------------------------------
(* rad_intercpt_sub_daily                                                  *)
(*                                                                         *)
(* The first loop calls solar_beam_fraction and solar_diffuse_fraction for   *)
(* every angle; what they return is a term, irrational in general.  The     *)
(* loops over the cells compute with floats: for each angle the pair        *)
(* solar[i] = <<beam_frac[i], diff_frac[i]>> is the value of the terms where *)
(* they are fractions and else a drawn pair that is zero where the term is, *)
(* and for each angle, LAI level and species the exponent                  *)
(* extinction[i][j][sp] = leaf_transm ** 0.5 * lai * k is drawn, in units of *)
(* ln 2, taken to be the same for the beam coefficient                     *)
(* rad_ext_coeff_black_beam and the diffuse one rad_ext_coeff_black_diff,   *)
(* so that the logarithms of lines 257-265 are whole numbers of units.     *)

\* one iteration of the first loop: beam_frac[i], diff_frac[i] and
\* total_intercpt[i], or the exception of the call that raises
flux_of_angle(atm_press, angle, atm_transm) ==
    Only({IF beam.status # "ok" THEN beam
          ELSE Only({IF diff.status # "ok" THEN diff
                     ELSE Returned([beam_frac |-> beam.value,
                                    diff_frac |-> diff.value,
                                    total_intercpt |-> real_add(beam.value, diff.value)]) :
                     diff \in {solar_diffuse_fraction(atm_press, angle, atm_transm)}}) :
          beam \in {solar_beam_fraction(atm_press, angle, atm_transm)}})

\* the first loop: the arrays beam_frac, diff_frac and total_intercpt, or the
\* exception of the first angle whose calls raise
flux_loop(atm_press, angles_deg, atm_transm) ==
    Only({IF \E i \in 1..Len(flux) : flux[i].status # "ok"
          THEN flux[CHOOSE i \in 1..Len(flux) :
                       /\ flux[i].status # "ok"
                       /\ \A j \in 1..(i - 1) : flux[j].status = "ok"]
          ELSE Returned([i \in 1..Len(flux) |-> flux[i].value]) :
          flux \in {[i \in 1..Len(angles_deg) |->
                        flux_of_angle(atm_press, angles_deg[i], atm_transm)]}})

\* total_intercpt[i] = beam_frac[i] + diff_frac[i]
total_flux(solar) ==
    [i \in 1..Len(solar) |-> Add(solar[i][1], solar[i][2])]

\* sp1_intercpt_alone[i, j] (sp2_intercpt_alone[i, j]): one minus the
\* flux-weighted beam and diffuse transmittances, times total_intercpt[i]
intercpt_alone(beam_frac, diff_frac, total_intercpt, exponent) ==
    Mul(Sub(One, Add(Mul(Div(beam_frac, total_intercpt), exp(Neg(Num(exponent)))),
                     Mul(Div(diff_frac, total_intercpt), exp(Neg(Num(exponent)))))),
        total_intercpt)

\* -math.log(x) in units of ln 2, for x = 2^-m; math.log(nan) is nan
minus_log(x) ==
    IF IsNaN(x) THEN NaN
    ELSE Num(CHOOSE m \in 0..8 : x = Frac(1, Pow2(m)))

\* -math.log(1 - sp_intercpt_alone[i, j] / total_intercpt[i])
minus_log_transm(sp_intercpt_alone, total_intercpt) ==
    minus_log(Sub(One, Div(sp_intercpt_alone, total_intercpt)))

\* canopy_intercpt[i, j]
canopy_cell(sp1_intercpt_alone, sp2_intercpt_alone, total_intercpt) ==
    Mul(Sub(One, Mul(Sub(One, Div(sp1_intercpt_alone, total_intercpt)),
                     Sub(One, Div(sp2_intercpt_alone, total_intercpt)))),
        total_intercpt)

\* the sum of the two logarithms, by which lines 257-265 divide
log_transm_total(sp1_intercpt_alone, sp2_intercpt_alone, total_intercpt) ==
    Add(minus_log_transm(sp1_intercpt_alone, total_intercpt),
        minus_log_transm(sp2_intercpt_alone, total_intercpt))

\* the share taken of total_intercpt[i] instead of canopy_intercpt[i, j]
species_cell_of_total_flux(own_intercpt_alone, sp1_intercpt_alone, sp2_intercpt_alone, total_intercpt) ==
    Mul(Div(minus_log_transm(own_intercpt_alone, total_intercpt),
            log_transm_total(sp1_intercpt_alone, sp2_intercpt_alone, total_intercpt)),
        total_intercpt)

\* sp1_intercpt[i, j] (sp2_intercpt[i, j]) for the species whose stand-alone
\* interception is own_intercpt_alone
species_cell(own_intercpt_alone, sp1_intercpt_alone, sp2_intercpt_alone, total_intercpt) ==
    Mul(Div(minus_log_transm(own_intercpt_alone, total_intercpt),
            log_transm_total(sp1_intercpt_alone, sp2_intercpt_alone, total_intercpt)),
        canopy_cell(sp1_intercpt_alone, sp2_intercpt_alone, total_intercpt))

\* one cell of the loops of lines 234-265: its arrays' elements, and whether
\* the division of lines 257-260, one of Python floats, is by zero
grid_cell(solar_i, extinction_ij) ==
    Only({Only({[canopy_intercpt |-> canopy_cell(alone[1], alone[2], total),
                 zero_divisor |-> IsZero(log_transm_total(alone[1], alone[2], total)),
                 sp1_intercpt |-> species_cell(alone[1], alone[1], alone[2], total),
                 sp2_intercpt |-> species_cell(alone[2], alone[1], alone[2], total)] :
                alone \in {<<intercpt_alone(solar_i[1], solar_i[2], total,
                                            extinction_ij[1]),
                             intercpt_alone(solar_i[1], solar_i[2], total,
                                            extinction_ij[2])>>}}) :
          total \in {Add(solar_i[1], solar_i[2])}})

\* the cells of all angles i and LAI levels j
grid(solar, extinction) ==
    [i \in 1..Len(solar) |->
        [j \in 1..Len(extinction[i]) |-> grid_cell(solar[i], extinction[i][j])]]

\* sp_intercpt[:, j].sum() / total_intercpt.sum()
daily(sp_intercpt, total_intercpt, j) ==
    Div(sum([i \in 1..Len(sp_intercpt) |-> sp_intercpt[i][j]]), sum(total_intercpt))

rad_intercpt_sub_daily(solar, extinction) ==
    Only({IF \E i \in 1..Len(cells) : \E j \in 1..Len(cells[i]) :
                cells[i][j].zero_divisor
          THEN Raised("ZeroDivisionError")
          ELSE Returned(
                <<[j \in 1..Len(extinction[1]) |->
                      daily([i \in 1..Len(cells) |->
                                [k \in 1..Len(cells[i]) |-> cells[i][k].sp1_intercpt]],
                            total_flux(solar), j)],
                  [j \in 1..Len(extinction[1]) |->
                      daily([i \in 1..Len(cells) |->
                                [k \in 1..Len(cells[i]) |-> cells[i][k].sp2_intercpt]],
                            total_flux(solar), j)]>>) :
          cells \in {grid(solar, extinction)}})

---------------------------------------------------------------------------
(* Inputs                                                                  *)

\* the longest species list
MaxSpecies == 3

\* extinction coefficients (in units of ln 2), leaf area indices and heights
\* of the species descriptors the data model calls valid
ExtinctionCoeffs == {1, 2}

LeafAreaIndices == {0, 1}

Heights == {1, 2}

Descriptors ==
    {<<k, lai, h>> : k \in ExtinctionCoeffs, lai \in LeafAreaIndices, h \in Heights}

\* the (k, LAI) descriptors rad_intercpt_apsim is documented with
Pairs ==
    {<<k, lai>> : k \in ExtinctionCoeffs, lai \in LeafAreaIndices}

ListsOf(S) ==
    UNION {[1..m -> S] : m \in 0..MaxSpecies}

CropLists == ListsOf(Descriptors)

PairLists == ListsOf(Pairs)

\* lists whose descriptors have 2, 3 or 4 elements
ShapeLists ==
    ListsOf({<<1, 1>>, <<1, 1, 1>>, <<1, 1, 1, 1>>})

\* a valid species list with one field of one descriptor replaced by a value
\* the data model excludes: a negative extinction coefficient, a negative
\* leaf area index, a zero or a negative height
BadValues ==
    {<<1, -1>>, <<2, -1>>, <<3, 0>>, <<3, -1>>}

\* the longest list that gets one faulty value
MaxFaulty == 2

FaultyLists ==
    UNION {{[l EXCEPT ![i] = [l[i] EXCEPT ![b[1]] = b[2]]] :
               i \in 1..Len(l), b \in BadValues} :
           l \in {c \in CropLists : Len(c) <= MaxFaulty}}

\* arguments of height_weight_fact, the doctests' among them
HeightDoms == {Frac(-1, 1), Zero, Frac(1, 2), Frac(3, 4), One, Frac(3, 2), Frac(2, 1)}

Factors == {Frac(-1, 1), Zero, Frac(14, 25), One, Frac(38, 25)}

SpeciesCounts == -1..MaxSpecies

\* zenith angles in radians and area ratios x of the extinction coefficients,
\* the doctests' among them
ZenithRads == {Frac(-87, 1000), Zero, Frac(87, 1000)}

AreaRatios == {Frac(-1, 1), Zero, Frac(2, 1)}

\* leaf area indices of rad_ext_coeff_black_diff, the doctests' among them
DiffLeafAreaIndices == {Frac(-1, 10), Zero, Frac(1, 10), One}

\* atmospheric pressures [kPa], zenith angles [deg] and atmospheric
\* transmittances, inside and outside their ranges, the doctests' among them
Pressures == {Num(38), Num(50), Num(100), SEA_LEVEL_ATM_PRSSR, Num(102)}

ZenithDegs == {Num(-1), Zero, Num(50), Num(90), Num(91)}

Transmittances == {Frac(-1, 4), Zero, Frac(9, 20), Frac(3, 4), One, Frac(5, 4)}

\* rad_intercpt_sub_daily: the numbers of angles and of LAI levels, the
\* pairs <<beam_frac, diff_frac>> of an angle (the doctests' 0.75 and 0.075
\* among them) and the pairs of exponents of a cell
AngleCounts == {1, 2}

LevelCounts == {1, 2}

SolarPairs ==
    {<<Zero, Frac(3, 10)>>, <<Frac(3, 4), Frac(3, 40)>>, <<Frac(1, 2), Frac(1, 8)>>,
     <<One, Zero>>}

ExponentPairs == {<<0, 0>>, <<1, 1>>, <<1, 2>>}

\* the arguments of rad_intercpt_sub_daily that the first loop reads
SubDailyPressures == {Num(50), SEA_LEVEL_ATM_PRSSR}

SubDailyTransmittances == {Zero, Frac(3, 4), One}

SubDailyAngles == {Zero, Num(90), Num(91)}

\* the pairs of floats that beam_frac[i] and diff_frac[i] may be: the terms'
\* values where both are fractions, else the drawn pairs that are zero where
\* the terms are
float_values(flux_i) ==
    IF IsFraction(flux_i.beam_frac) /\ IsFraction(flux_i.diff_frac)
    THEN {<<flux_i.beam_frac, flux_i.diff_frac>>}
    ELSE {pair \in SolarPairs : /\ IsZero(pair[1]) <=> is_zero(flux_i.beam_frac)
                                /\ IsZero(pair[2]) <=> is_zero(flux_i.diff_frac)}

\* the arrays of floats that the arrays of terms may be
float_arrays(flux) ==
    {solar \in [1..Len(flux) -> UNION {float_values(flux[i]) : i \in 1..Len(flux)}] :
        \A i \in 1..Len(flux) : solar[i] \in float_values(flux[i])}

---------------------------------------------------------------------------
(* The state machine: the caller makes one call at a time and takes its     *)
(* result (or the exception) before it makes the next                      *)

\* the caller holds no species list
NoList == [held |-> FALSE, built |-> <<>>, list |-> <<>>, passed_before |-> FALSE]

\* the species list object the caller built with the content crop_list and
\* passed to a daily model, the content the call left in it, and whether the
\* object had been passed to a daily model before that call
Held(crop_list, after, passed_before) == [held |-> TRUE, built |-> crop_list, list |-> after, passed_before |-> passed_before]

Init ==
    /\ fn = "none"
    /\ args = <<>>
    /\ outcome = Raised("none")
    /\ caller = NoList

\* no call is under way, and the caller holds no list of an earlier call
idle == fn = "none" /\ ~caller.held

\* the caller has taken the outcome of the call; it keeps the species list
\* it passed
return_to_caller ==
    /\ fn # "none"
    /\ outcome.status # "running"
    /\ fn' = "none"
    /\ args' = <<>>
    /\ outcome' = Raised("none")
    /\ UNCHANGED caller

call_height_weight_fact ==
    \E height_dom \in HeightDoms, dominant_fact \in Factors,
       suppressed_fact \in Factors, number_species \in SpeciesCounts :
        /\ idle
        /\ fn' = "height_weight_fact"
        /\ args' = <<height_dom, dominant_fact, suppressed_fact, number_species>>
        /\ outcome' = height_weight_fact(height_dom, dominant_fact,
                                         suppressed_fact, number_species, FALSE)
        /\ UNCHANGED caller

\* the daily model called by name
daily_model(name, crop_list) ==
    CASE name = "rad_intercpt_cycles" -> rad_intercpt_cycles(crop_list)
      [] name = "rad_intercpt_wallace" -> rad_intercpt_wallace(crop_list)
      [] name = "rad_intercpt_apsim" -> rad_intercpt_apsim(crop_list)

\* what the call of the daily model leaves in the caller's list
crop_list_after(name, crop_list) ==
    IF name = "rad_intercpt_cycles" THEN crop_list_after_pops(crop_list)
    ELSE crop_list

\* the caller builds a list and passes it
call_rad_intercpt_cycles(inputs) ==
    \E crop_list \in inputs :
        /\ idle
        /\ fn' = "rad_intercpt_cycles"
        /\ args' = crop_list
        /\ outcome' = rad_intercpt_cycles(crop_list)
        /\ caller' = Held(crop_list, crop_list_after("rad_intercpt_cycles", crop_list), FALSE)

call_rad_intercpt_wallace(inputs) ==
    \E crop_list \in inputs :
        /\ idle
        /\ fn' = "rad_intercpt_wallace"
        /\ args' = crop_list
        /\ outcome' = rad_intercpt_wallace(crop_list)
        /\ caller' = Held(crop_list, crop_list_after("rad_intercpt_wallace", crop_list), FALSE)

call_rad_intercpt_apsim(inputs) ==
    \E crop_list \in inputs :
        /\ idle
        /\ fn' = "rad_intercpt_apsim"
        /\ args' = crop_list
        /\ outcome' = rad_intercpt_apsim(crop_list)
        /\ caller' = Held(crop_list, crop_list_after("rad_intercpt_apsim", crop_list), FALSE)

\* the caller passes the list it holds, as the earlier calls left it, to a
\* daily model again
call_again(name, inputs) ==
    /\ fn = "none"
    /\ caller.held
    /\ caller.list \in inputs
    /\ fn' = name
    /\ args' = caller.list
    /\ outcome' = daily_model(name, caller.list)
    /\ caller' = Held(caller.built, crop_list_after(name, caller.list), TRUE)

\* the caller drops the list it holds
discard_list ==
    /\ fn = "none"
    /\ caller.held
    /\ caller' = NoList
    /\ UNCHANGED <<fn, args, outcome>>

call_rad_ext_coeff_black_beam ==
    \E solar_zenith_angle \in ZenithRads, x_area_ratio \in AreaRatios :
        /\ idle
        /\ fn' = "rad_ext_coeff_black_beam"
        /\ args' = <<solar_zenith_angle, x_area_ratio>>
        /\ outcome' = rad_ext_coeff_black_beam(solar_zenith_angle, x_area_ratio)
        /\ UNCHANGED caller

call_rad_ext_coeff_black_diff ==
    \E x_area_ratio \in AreaRatios, leaf_area_index \in DiffLeafAreaIndices :
        /\ idle
        /\ fn' = "rad_ext_coeff_black_diff"
        /\ args' = <<x_area_ratio, leaf_area_index>>
        /\ outcome' = diff_enter(x_area_ratio, leaf_area_index)
        /\ UNCHANGED caller

\* the call of rad_ext_coeff_black_diff under way runs one iteration
integration_loop ==
    /\ fn = "rad_ext_coeff_black_diff"
    /\ outcome.status = "running"
    /\ outcome' = diff_iteration(args[1], args[2], outcome.value)
    /\ UNCHANGED <<fn, args, caller>>

call_opt_air_mass ==
    \E atm_press \in Pressures, solar_zenith_angle \in ZenithDegs :
        /\ idle
        /\ fn' = "opt_air_mass"
        /\ args' = <<atm_press, solar_zenith_angle>>
        /\ outcome' = opt_air_mass(atm_press, solar_zenith_angle)
        /\ UNCHANGED caller

call_solar_beam_fraction ==
    \E atm_press \in Pressures, solar_zenith_angle \in ZenithDegs,
       atm_transmittance \in Transmittances :
        /\ idle
        /\ fn' = "solar_beam_fraction"
        /\ args' = <<atm_press, solar_zenith_angle, atm_transmittance>>
        /\ outcome' = solar_beam_fraction(atm_press, solar_zenith_angle,
                                          atm_transmittance)
        /\ UNCHANGED caller

call_solar_diffuse_fraction ==
    \E atm_press \in Pressures, solar_zenith_angle \in ZenithDegs,
       atm_transmittance \in Transmittances :
        /\ idle
        /\ fn' = "solar_diffuse_fraction"
        /\ args' = <<atm_press, solar_zenith_angle, atm_transmittance>>
        /\ outcome' = solar_diffuse_fraction(atm_press, solar_zenith_angle,
                                             atm_transmittance)
        /\ UNCHANGED caller

\* args: the floats solar and extinction that the loops over the cells
\* compute with (none if the first loop raises), then atm_press, atm_transm
\* and angles_deg
call_rad_intercpt_sub_daily ==
    /\ idle
    /\ fn' = "rad_intercpt_sub_daily"
    /\ UNCHANGED caller
    /\ \E atm_press \in SubDailyPressures, atm_transm \in SubDailyTransmittances,
          angles \in AngleCounts :
          \E angles_deg \in [1..angles -> SubDailyAngles] :
          \E flux \in {flux_loop(atm_press, angles_deg, atm_transm)} :
             IF flux.status # "ok"
             THEN /\ args' = <<<<>>, <<>>, atm_press, atm_transm, angles_deg>>
                  /\ outcome' = flux
             ELSE \E levels \in LevelCounts :
                  \E solar \in float_arrays(flux.value),
                     extinction \in [1..angles -> [1..levels -> ExponentPairs]] :
                     /\ args' = <<solar, extinction, atm_press, atm_transm, angles_deg>>
                     /\ outcome' = rad_intercpt_sub_daily(solar, extinction)

Next ==
    \/ call_height_weight_fact
    \/ call_rad_intercpt_cycles(CropLists)
    \/ call_rad_intercpt_wallace(CropLists \cup ShapeLists)
    \/ call_rad_intercpt_apsim(CropLists \cup PairLists)
    \/ call_again("rad_intercpt_cycles", CropLists)
    \/ call_again("rad_intercpt_wallace", CropLists \cup ShapeLists)
    \/ call_again("rad_intercpt_apsim", CropLists \cup PairLists)
    \/ call_rad_ext_coeff_black_beam
    \/ call_rad_ext_coeff_black_diff
    \/ integration_loop
    \/ call_opt_air_mass
    \/ call_solar_beam_fraction
    \/ call_solar_diffuse_fraction
    \/ call_rad_intercpt_sub_daily
    \/ discard_list
    \/ return_to_caller

Spec == Init /\ [][Next]_vars

\* the same calls, also with descriptors the data model excludes
NextAnyInput ==
    \/ call_height_weight_fact
    \/ call_rad_intercpt_cycles(CropLists \cup FaultyLists)
    \/ call_rad_intercpt_wallace(CropLists \cup ShapeLists \cup FaultyLists)
    \/ call_rad_intercpt_apsim(CropLists \cup PairLists \cup FaultyLists)
    \/ call_again("rad_intercpt_cycles", CropLists \cup FaultyLists)
    \/ call_again("rad_intercpt_wallace", CropLists \cup ShapeLists \cup FaultyLists)
    \/ call_again("rad_intercpt_apsim", CropLists \cup PairLists \cup FaultyLists)
    \/ call_rad_ext_coeff_black_beam
    \/ call_rad_ext_coeff_black_diff
    \/ integration_loop
    \/ call_opt_air_mass
    \/ call_solar_beam_fraction
    \/ call_solar_diffuse_fraction
    \/ call_rad_intercpt_sub_daily
    \/ discard_list
    \/ return_to_caller

SpecAnyInput == Init /\ [][NextAnyInput]_vars

\* the interpreter goes on with the call under way: a loop that can run
\* another iteration does run it
SpecFair == Spec /\ WF_vars(integration_loop)

---------------------------------------------------------------------------
(* Properties                                                              *)

DailyModels == {"rad_intercpt_cycles", "rad_intercpt_wallace", "rad_intercpt_apsim"}

RECURSIVE KLaiTotal(_, _)
KLaiTotal(crop_list, m) ==
    IF m = 0 THEN 0
    ELSE KLaiTotal(crop_list, m - 1) + crop_list[m][1] * crop_list[m][2]

\* 1 - product over i of exp(-k_i * LAI_i) for products k_i * LAI_i >= 0,
\* as 1 - 2^(-sum of the products)
CanopyInterception(crop_list) ==
    LET total == KLaiTotal(crop_list, Len(crop_list))
    IN Frac(Pow2(total) - 1, Pow2(total))

\* 1 - exp(-k * LAI) of one descriptor with k * LAI >= 0
StandAlone(descriptor) ==
    Frac(Pow2(descriptor[1] * descriptor[2]) - 1, Pow2(descriptor[1] * descriptor[2]))

\* k > 0, LAI >= 0 and (where the descriptor has one) height > 0
ValidDescriptor(descriptor) ==
    /\ descriptor[1] > 0
    /\ descriptor[2] >= 0
    /\ Len(descriptor) >= 3 => descriptor[3] > 0

ValidList(crop_list) ==
    \A i \in 1..Len(crop_list) : ValidDescriptor(crop_list[i])

PositiveProducts(crop_list) ==
    \A i \in 1..Len(crop_list) : crop_list[i][1] * crop_list[i][2] > 0

\* C1: rad_intercpt_cycles, for every list of N >= 1 species with k_i > 0,
\* LAI_i > 0 and height_i > 0, returns per-species interceptions whose sum is
\* the canopy interception 1 - product of exp(-k_i * LAI_i).
C1_CyclesSumIsCanopyInterception ==
    (/\ fn = "rad_intercpt_cycles"
     /\ Len(args) >= 1
     /\ ValidList(args)
     /\ PositiveProducts(args))
    => /\ outcome.status = "ok"
       /\ Len(outcome.value) = Len(args)
       /\ Eq(sum(outcome.value), CanopyInterception(args))

\* three species of unequal heights and unequal k * LAI, all positive
C1_Witness ==
    /\ fn = "rad_intercpt_cycles"
    /\ args = <<<<1, 1, 1>>, <<2, 1, 2>>, <<1, 1, 1>>>>
    /\ outcome.status = "ok"
    /\ ~Eq(outcome.value[1], outcome.value[2])

\* C2: rad_intercpt_apsim, whenever every species has k_i * LAI_i > 0, returns
\* per-species interceptions whose sum is exactly the canopy interception
\* 1 - product of exp(-k_i * LAI_i).
C2_ApsimSumIsCanopyInterception ==
    (/\ fn = "rad_intercpt_apsim"
     /\ PositiveProducts(args))
    => /\ outcome.status = "ok"
       /\ Len(outcome.value) = Len(args)
       /\ Eq(sum(outcome.value), CanopyInterception(args))

\* three species of unequal k * LAI, all positive
C2_Witness ==
    /\ fn = "rad_intercpt_apsim"
    /\ args = <<<<1, 1>>, <<2, 1>>, <<1, 1>>>>
    /\ outcome.status = "ok"
    /\ ~Eq(outcome.value[1], outcome.value[2])

\* C3: for all valid inputs (k > 0, LAI >= 0, height > 0) of the three daily
\* models, every returned per-species interception lies in
\* [0, total_interception], total_interception being 1 - product of the
\* stand-alone transmittances.
C3_InterceptionWithinCanopyTotal ==
    (/\ fn \in DailyModels
     /\ ValidList(args)
     /\ outcome.status = "ok")
    => \A i \in 1..Len(outcome.value) :
           /\ Le(Zero, outcome.value[i])
           /\ Le(outcome.value[i], CanopyInterception(args))

\* C4 as stated: each daily model called with a list of exactly one species
\* returns one value, 1 - exp(-k * LAI).
C4_SingleSpeciesAllModels ==
    (/\ fn \in DailyModels
     /\ Len(args) = 1
     /\ ValidList(args))
    => /\ outcome.status = "ok"
       /\ Len(outcome.value) = 1
       /\ Eq(outcome.value[1], StandAlone(args[1]))

\* C4, amended: rad_intercpt_apsim called with one species, and
\* rad_intercpt_cycles called with one species of k * LAI > 0, return one
\* value, 1 - exp(-k * LAI); rad_intercpt_wallace called with one species
\* raises its assertion error; rad_intercpt_cycles called with one species
\* of k * LAI = 0 returns nan.
C4_SingleSpecies ==
    (/\ fn \in DailyModels
     /\ Len(args) = 1
     /\ ValidList(args))
    => IF fn = "rad_intercpt_wallace"
       THEN outcome.status = "AssertionError"
       ELSE /\ outcome.status = "ok"
            /\ Len(outcome.value) = 1
            /\ IF fn = "rad_intercpt_cycles" /\ ~PositiveProducts(args)
               THEN IsNaN(outcome.value[1])
               ELSE Eq(outcome.value[1], StandAlone(args[1]))

\* one species with k * LAI = 2 ln 2 given to rad_intercpt_cycles
C4_Witness ==
    /\ fn = "rad_intercpt_cycles"
    /\ args = <<<<2, 1, 2>>>>
    /\ outcome = Returned(<<Frac(3, 4)>>)

\* C5: rad_intercpt_wallace, for two species of identical k, LAI and height,
\* returns two equal, non-negative values whose sum is the pair's joint
\* interception 1 - exp(-k * LAI)^2.
C5_WallaceSymmetry ==
    (/\ fn = "rad_intercpt_wallace"
     /\ Len(args) = 2
     /\ Len(args[1]) = 3
     /\ args[1] = args[2]
     /\ ValidList(args))
    => /\ outcome.status = "ok"
       /\ Eq(outcome.value[1], outcome.value[2])
       /\ Le(Zero, outcome.value[1])
       /\ Eq(Add(outcome.value[1], outcome.value[2]), CanopyInterception(args))

\* two identical species that intercept something
C5_Witness ==
    /\ fn = "rad_intercpt_wallace"
    /\ args = <<<<1, 1, 2>>, <<1, 1, 2>>>>
    /\ outcome.status = "ok"
    /\ Gt(outcome.value[1], Zero)

\* C6: rad_intercpt_wallace raises its assertion error (and returns nothing)
\* whenever the list has not exactly 2 entries or an entry has not exactly 3
\* elements, and never raises it for a list of 2 entries of 3 elements.
C6_WallaceArity ==
    fn = "rad_intercpt_wallace"
    => (outcome.status = "AssertionError"
        <=> (Len(args) # 2 \/ \E i \in 1..Len(args) : Len(args[i]) # 3))

\* two species, the second with four elements
C6_Witness ==
    /\ fn = "rad_intercpt_wallace"
    /\ Len(args) = 2
    /\ Len(args[1]) = 3
    /\ Len(args[2]) = 4
    /\ outcome.status = "AssertionError"

\* each of the four arguments of height_weight_fact is strictly positive
AllStrictlyPositive(a) ==
    /\ Gt(a[1], Zero)
    /\ Gt(a[2], Zero)
    /\ Gt(a[3], Zero)
    /\ a[4] > 0

\* C7: height_weight_fact raises its assertion error whenever one of its four
\* inputs is not strictly positive, and returns a value only when all four
\* are.
C7_HeightWeightFactRejectsNonPositive ==
    fn = "height_weight_fact"
    => /\ ~AllStrictlyPositive(args) => outcome.status = "AssertionError"
       /\ outcome.status = "ok" => AllStrictlyPositive(args)

\* C8: height_weight_fact(h, d, s, n) is, for every valid input, 1 when
\* h = 1; the line through s at h = 0 and 1 at h = 1 when h < 1
\* (1 + (h-1)*(s-1)/(0-1), which is s + h*(1-s)); and 1 + (h-1)/(n-1)*(d-1)
\* when h > 1 (n >= 2).  (0.75, 1.52, 0.56, 3) gives 0.89 and
\* (1.5, 1.52, 0.56, 3) gives 1.13.
C8_HeightWeightFactPiecewise ==
    (/\ fn = "height_weight_fact"
     /\ AllStrictlyPositive(args))
    => LET h == args[1]
           d == args[2]
           s == args[3]
           n == args[4]
           v == outcome.value
       IN /\ outcome.status = "ok" <=> ~(Gt(h, One) /\ n = 1)
          /\ outcome.status = "ok" =>
                /\ Eq(h, One) => v = One
                /\ Lt(h, One) => Eq(v, Add(s, Mul(h, Sub(One, s))))
                /\ Gt(h, One) => Eq(Mul(Sub(v, One), Num(n - 1)),
                                    Mul(Sub(h, One), Sub(d, One)))
          /\ args = <<Frac(3, 4), Frac(38, 25), Frac(14, 25), 3>>
                => v = Frac(89, 100)
          /\ args = <<Frac(3, 2), Frac(38, 25), Frac(14, 25), 3>>
                => v = Frac(113, 100)

\* the first doctest: a species shorter than the canopy average
C8_Witness ==
    /\ fn = "height_weight_fact"
    /\ args = <<Frac(3, 4), Frac(38, 25), Frac(14, 25), 3>>
    /\ outcome = Returned(Frac(89, 100))

\* a descriptor with a negative extinction coefficient, a negative leaf area
\* index or (for the models that read it) a zero or negative height
InvalidDescriptor(descriptor) ==
    \/ descriptor[1] < 0
    \/ descriptor[2] < 0
    \/ fn # "rad_intercpt_apsim" /\ Len(descriptor) >= 3 /\ descriptor[3] <= 0

\* C9: the daily models raise an error (and return nothing) when a species
\* has a negative extinction coefficient, a negative LAI or a zero or
\* negative height.
C9_DailyModelsRejectInvalidDescriptors ==
    (/\ fn \in DailyModels
     /\ \E i \in 1..Len(args) : InvalidDescriptor(args[i]))
    => outcome.status # "ok"

\* C10: rad_intercpt_cycles raises an error (and returns nothing) when called
\* with an empty species list.
C10_CyclesRejectsEmptyList ==
    (/\ fn = "rad_intercpt_cycles"
     /\ Len(args) = 0)
    => outcome.status # "ok"

RECURSIVE HeightTotal(_, _)
HeightTotal(crop_list, m) ==
    IF m = 0 THEN 0 ELSE HeightTotal(crop_list, m - 1) + crop_list[m][3]

\* C11: rad_intercpt_cycles raises an error, rather than return an array
\* computed through a zero divisor, when a species has k_i * LAI_i = 0 or when
\* the heights of the species sum to zero.
C11_CyclesRejectsZeroDivisors ==
    (/\ fn = "rad_intercpt_cycles"
     /\ Len(args) >= 1
     /\ \/ \E i \in 1..Len(args) : args[i][1] * args[i][2] = 0
        \/ HeightTotal(args, Len(args)) = 0)
    => outcome.status # "ok"

\* C12: rad_ext_coeff_black_beam raises its assertion error for every call
\* with a zenith angle < 0 or an x_area_ratio < 0, and accepts every call with
\* both >= 0.
C12_BeamCoefficientPrecondition ==
    fn = "rad_ext_coeff_black_beam"
    => (outcome.status = "AssertionError"
        <=> (Lt(args[1], Zero) \/ Lt(args[2], Zero)))

\* C13: rad_ext_coeff_black_diff raises an error for every call with
\* leaf_area_index <= 0 or x_area_ratio < 0, whatever the other argument
\* (x_area_ratio = 0 with a negative leaf_area_index included), and every
\* call with leaf_area_index > 0 and x_area_ratio >= 0 passes the check and
\* returns.
C13_DiffCoefficientPrecondition ==
    (/\ fn = "rad_ext_coeff_black_diff"
     /\ outcome.status # "running")
    => (outcome.status # "ok"
        <=> (Le(args[2], Zero) \/ Lt(args[1], Zero)))

\* |x - y| of doubles, exactly
double_distance(x, y) ==
    IF double_gt(x, y) THEN carry(x.h - y.h, x.m - y.m, x.l - y.l)
    ELSE carry(y.h - x.h, y.m - x.m, y.l - x.l)

\* the midpoint (k - 0.5) * diff_ang of the k-th interval, exactly: 2k - 1
\* times diff_ang_center
midpoint(k) ==
    carry(diff_ang_center.h * (2 * k - 1), diff_ang_center.m * (2 * k - 1),
          diff_ang_center.l * (2 * k - 1))

\* what the rounding of the additions may move a sampled angle by: 2^-40 rad
AngleTolerance == [h |-> 0, m |-> 0, l |-> Pow2(19)]

\* C14: the integration loop of rad_ext_coeff_black_diff takes exactly 90
\* samples, the k-th at the midpoint (k - 0.5) * pi/180 of the k-th interval
\* (up to the rounding of the loop's additions), so that every sampled angle
\* lies strictly inside (0, pi/2) and none beyond 90 degrees.
C14_NinetyMidpointSamples ==
    (/\ fn = "rad_ext_coeff_black_diff"
     /\ outcome.status = "ok")
    => /\ Len(outcome.value.angles) = 90
       /\ \A k \in 1..Len(outcome.value.angles) :
             /\ ~double_gt(double_distance(outcome.value.angles[k], midpoint(k)),
                           AngleTolerance)
             /\ double_gt(outcome.value.angles[k], [h |-> 0, m |-> 0, l |-> 0])
             /\ double_gt(MAX_ANGLE, outcome.value.angles[k])

\* the second doctest has returned
C14_Witness ==
    /\ fn = "rad_ext_coeff_black_diff"
    /\ args = <<Zero, Frac(1, 10)>>
    /\ outcome.status = "ok"
    /\ Len(outcome.value.angles) = 90

SolarFractions == {"solar_beam_fraction", "solar_diffuse_fraction"}

\* the fraction computed with air_mass = atm_press / (101.3 * cos(zenith_rad)),
\* zenith_rad being the zenith angle multiplied by pi/180 once
SingleConversionFraction(atm_press, zenith_deg, atm_transmittance) ==
    LET zenith_rad == times_deg_to_rad(zenith_deg)
        air_mass == real_div(atm_press,
                             real_mul(SEA_LEVEL_ATM_PRSSR, cos(zenith_rad)))
    IN IF fn = "solar_beam_fraction"
       THEN real_mul(real_pow(atm_transmittance, air_mass), cos(zenith_rad))
       ELSE real_mul(real_mul(Frac(3, 10),
                              real_sub(One, real_pow(atm_transmittance, air_mass))),
                     cos(zenith_rad))

\* C15: solar_beam_fraction(pressure, zenith_deg, t) converts the zenith angle
\* from degrees to radians once and returns t^air_mass * cos(zenith_rad) with
\* air_mass = pressure / (101.3 * cos(zenith_rad)), the air mass being computed
\* from the same angle in radians as the final cosine; likewise
\* solar_diffuse_fraction returns 0.3 * (1 - t^air_mass) * cos(zenith_rad).
C15_ZenithConvertedOnce ==
    (/\ fn \in SolarFractions
     /\ outcome.status = "ok")
    => outcome.value = SingleConversionFraction(args[1], args[2], args[3])

\* 38 < pressure <= 101.3
PressureInRange(atm_press) ==
    Lt(Num(38), atm_press) /\ Le(atm_press, Frac(1013, 10))

\* C16: opt_air_mass raises unless 38 < pressure <= 101.3 and zenith >= 0;
\* solar_beam_fraction and solar_diffuse_fraction raise unless
\* 0 <= zenith_deg <= 90 and 0 <= transmittance <= 1, and also for a pressure
\* out of range; what is raised is an assertion error and no value is
\* returned.
C16_SolarGeometryRanges ==
    /\ fn = "opt_air_mass"
       => /\ outcome.status = "ok"
             <=> (PressureInRange(args[1]) /\ Le(Zero, args[2]))
          /\ outcome.status \in {"ok", "AssertionError"}
    /\ fn \in SolarFractions
       => /\ outcome.status = "ok"
             <=> /\ Le(Zero, args[2]) /\ Le(args[2], Num(90))
                 /\ Le(Zero, args[3]) /\ Le(args[3], One)
                 /\ PressureInRange(args[1])
          /\ outcome.status \in {"ok", "AssertionError"}

\* an angle and a transmittance in range, a pressure out of range
C16_Witness ==
    /\ fn = "solar_diffuse_fraction"
    /\ args = <<Num(102), Num(50), Frac(3, 4)>>
    /\ outcome.status = "AssertionError"

\* a call of a solar fraction at zenith_deg = 90 with a valid pressure and a
\* valid transmittance
AtRightAngle ==
    /\ fn \in SolarFractions
    /\ args[2] = Num(90)
    /\ PressureInRange(args[1])
    /\ Le(Zero, args[3]) /\ Le(args[3], One)

\* C17 as stated: solar_beam_fraction and solar_diffuse_fraction return 0 at
\* zenith_deg = 90 for every valid pressure and transmittance, without
\* failing on a division by zero.
C17_ZeroAtRightAngle ==
    AtRightAngle
    => /\ outcome.status = "ok"
       /\ outcome.value = Zero

\* math.cos(90 * DEG_TO_RAD): the cosine of the double nearest pi/2
CosineOfRightAngle ==
    [op |-> "cos", of |-> [op |-> "times_deg_to_rad", q |-> Num(90), times |-> 1]]

\* C17, amended: at zenith_deg = 90, for every valid pressure and
\* transmittance, both functions return, without failing on a division by
\* zero, the product of a factor in [0, 1] and math.cos(90 * pi/180), which is
\* 6.1e-17 and not 0: the result is 0 up to rounding, and exactly 0 only where
\* the factor is (solar_beam_fraction with t = 0, solar_diffuse_fraction with
\* t = 1).
C17_NearZeroAtRightAngle ==
    AtRightAngle
    => /\ outcome.status = "ok"
       /\ \/ outcome.value = Zero
          \/ outcome.value = CosineOfRightAngle
          \/ /\ ~IsFraction(outcome.value)
             /\ outcome.value.op = "mul"
             /\ outcome.value.r = CosineOfRightAngle
       /\ outcome.value = Zero
          <=> \/ fn = "solar_beam_fraction" /\ args[3] = Zero
              \/ fn = "solar_diffuse_fraction" /\ args[3] = One

\* the clear-sky beam fraction at the horizon
C17_Witness ==
    /\ fn = "solar_beam_fraction"
    /\ args = <<Frac(1013, 10), Num(90), Frac(3, 4)>>
    /\ outcome.status = "ok"
    /\ outcome.value # Zero

\* a call of solar_beam_fraction at zenith_deg = 0 with a valid pressure and
\* a valid transmittance
AtZenith ==
    /\ fn = "solar_beam_fraction"
    /\ args[2] = Zero
    /\ PressureInRange(args[1])
    /\ Le(Zero, args[3]) /\ Le(args[3], One)

\* C18 as stated: at zenith_deg = 0, solar_beam_fraction(pressure, 0, t) is t
\* exactly, for every valid pressure and every t in [0, 1].
C18_TransmittanceAtZenithAnyPressure ==
    AtZenith
    => /\ outcome.status = "ok"
       /\ outcome.value = args[3]

\* C18, amended: at zenith_deg = 0, solar_beam_fraction(pressure, 0, t) is
\* t^(pressure/101.3) for every valid pressure and every t in [0, 1]; that is
\* t exactly at pressure = 101.3 (and for t = 0 and t = 1).
C18_TransmittanceAtZenith ==
    AtZenith
    => /\ outcome.status = "ok"
       /\ outcome.value =
             IF args[1] = Frac(1013, 10) \/ args[3] \in {Zero, One}
             THEN args[3]
             ELSE [op |-> "pow", base |-> args[3],
                   exponent |-> Div(args[1], Frac(1013, 10))]

\* the first doctest of solar_beam_fraction
C18_Witness ==
    /\ fn = "solar_beam_fraction"
    /\ args = <<Frac(1013, 10), Zero, Frac(3, 4)>>
    /\ outcome = Returned(Frac(3, 4))

\* the sequence with its ith and (i+1)th elements exchanged
SwapNext(a, i) ==
    [k \in 1..Len(a) |-> IF k = i THEN a[i + 1] ELSE IF k = i + 1 THEN a[i] ELSE a[k]]

\* C19: rad_intercpt_cycles and rad_intercpt_apsim return one value per input
\* species, species i's at index i, and permuting the species list permutes
\* the returned values the same way.  Stated for the exchange of two
\* neighbours: every permutation is a chain of them, and every list of the
\* model's inputs is checked.
C19_OutputFollowsSpeciesOrder ==
    (/\ fn \in {"rad_intercpt_cycles", "rad_intercpt_apsim"}
     /\ outcome.status = "ok")
    => /\ Len(outcome.value) = Len(args)
       /\ \A i \in 1..(Len(args) - 1) :
             (IF fn = "rad_intercpt_cycles"
              THEN rad_intercpt_cycles(SwapNext(args, i))
              ELSE rad_intercpt_apsim(SwapNext(args, i)))
             = Returned(SwapNext(outcome.value, i))

\* three species of which the first two differ in k * LAI and in height
C19_Witness ==
    /\ fn = "rad_intercpt_cycles"
    /\ args = <<<<1, 1, 1>>, <<2, 1, 2>>, <<1, 1, 1>>>>
    /\ outcome.status = "ok"
    /\ outcome.value[1] # outcome.value[2]
    /\ rad_intercpt_cycles(SwapNext(args, 1)).value[1] = outcome.value[2]

\* C20: rad_intercpt_sub_daily splits, in every (angle, LAI) cell, the canopy
\* interception between the two species in proportion to the negative
\* logarithms of their stand-alone transmittances, so that
\* sp1_intercpt[i, j] + sp2_intercpt[i, j] = canopy_intercpt[i, j]; and the
\* daily value it returns for each species and LAI level j is the sum over
\* the angles of the species' cells divided by the sum over the angles of the
\* total flux, one value per species and LAI level.
C20_SubDailyPartition ==
    (/\ fn = "rad_intercpt_sub_daily"
     /\ outcome.status = "ok")
    => \A solar \in {args[1]}, extinction \in {args[2]} :
       \A cells \in {grid(solar, extinction)},
          flux \in {sum([i \in 1..Len(solar) |-> Add(solar[i][1], solar[i][2])])} :
          /\ \A i \in 1..Len(solar) : \A j \in 1..Len(extinction[1]) :
                /\ Eq(Add(cells[i][j].sp1_intercpt, cells[i][j].sp2_intercpt),
                      cells[i][j].canopy_intercpt)
                /\ Eq(Mul(cells[i][j].sp1_intercpt,
                          Num(extinction[i][j][1] + extinction[i][j][2])),
                      Mul(cells[i][j].canopy_intercpt, Num(extinction[i][j][1])))
          /\ Len(outcome.value) = 2
          /\ \A sp \in 1..2 :
                /\ Len(outcome.value[sp]) = Len(extinction[1])
                /\ \A j \in 1..Len(extinction[1]) :
                      Eq(Mul(outcome.value[sp][j], flux),
                         sum([i \in 1..Len(solar) |->
                                 IF sp = 1 THEN cells[i][j].sp1_intercpt
                                 ELSE cells[i][j].sp2_intercpt]))

\* two angles and two LAI levels, the species unequal in a cell
C20_Witness ==
    /\ fn = "rad_intercpt_sub_daily"
    /\ Len(args[1]) = 2
    /\ Len(args[2][1]) = 2
    /\ args[2][1][1] = <<1, 2>>
    /\ outcome.status = "ok"
    /\ Lt(outcome.value[1][1], outcome.value[2][1])

\* the call of rad_ext_coeff_black_diff under way is inside its while loop
LoopRunning ==
    /\ fn = "rad_ext_coeff_black_diff"
    /\ outcome.status = "running"

\* the while loop was left by its break: the call returned, or raised in the
\* division after the loop
LeftByBreak(status) ==
    status \in {"ok", "ZeroDivisionError"}

\* C21: the while loop of rad_ext_coeff_black_diff ends for every input: a
\* call inside the loop has taken fewer than STEP_SIZE samples, every call
\* that entered the loop leaves it, and it leaves it by the break exactly in
\* its STEP_SIZE-th iteration, whatever the arguments (the only other way out
\* is the AssertionError of rad_ext_coeff_black_beam in the first iteration).
\* The for loops run over range() and enumerate() of sequences fixed before
\* the loop starts, once per element.
C21_LoopsTerminate ==
    /\ [](LoopRunning => Len(outcome.value.samples) < STEP_SIZE)
    /\ (LoopRunning ~> (fn = "rad_ext_coeff_black_diff" /\ ~LoopRunning))
    /\ [][(LoopRunning /\ ~LoopRunning') =>
            IF LeftByBreak(outcome'.status)
            THEN Len(outcome.value.samples) = STEP_SIZE - 1
            ELSE /\ outcome'.status = "AssertionError"
                 /\ outcome.value.samples = <<>>]_vars

\* a call whose leaf_area_index is zero has left the loop by the break and
\* failed in the division after it
C21_Witness ==
    /\ fn = "rad_ext_coeff_black_diff"
    /\ args = <<Frac(2, 1), Zero>>
    /\ outcome.status = "ZeroDivisionError"

\* the product of transm_rad[1..m] that skips index i
RECURSIVE SkipIndexProduct(_, _, _)
SkipIndexProduct(transm_rad, i, m) ==
    IF m = 0 THEN One
    ELSE IF m = i THEN SkipIndexProduct(transm_rad, i, m - 1)
    ELSE Mul(SkipIndexProduct(transm_rad, i, m - 1), transm_rad[m])

\* C22: in rad_intercpt_cycles the list left by all_species.pop(i) holds every
\* species but the ith exactly once, so that transm_rad_others[i] is the
\* product of the stand-alone transmittances of the species j # i (what an
\* iteration skipping index i computes) and rad_intercpt_suppr[i] is the
\* stand-alone interception of species i times that product.
C22_OthersTransmittanceSkipsIth ==
    fn = "rad_intercpt_cycles"
    => \A s \in {suppressed(totals(read_inputs(args)))} :
       \A i \in 1..Len(args) :
          /\ \A others \in {all_species_but_ith(Len(args), i)} :
                /\ Len(others) = Len(args) - 1
                /\ \A j \in 1..Len(args) :
                      Cardinality({n \in 1..Len(others) : others[n] = j})
                          = (IF j = i THEN 0 ELSE 1)
          /\ Eq(s.transm_rad_others[i],
                SkipIndexProduct([j \in 1..Len(args) |-> Sub(One, StandAlone(args[j]))],
                                 i, Len(args)))
          /\ Eq(s.rad_intercpt_suppr[i],
                Mul(StandAlone(args[i]), s.transm_rad_others[i]))

\* three species of unlike transmittances 1/2, 1/4, 1/2: the others of the
\* first transmit 1/4 * 1/2, the others of the second 1/2 * 1/2
C22_Witness ==
    /\ fn = "rad_intercpt_cycles"
    /\ args = <<<<1, 1, 1>>, <<2, 1, 2>>, <<1, 1, 2>>>>
    /\ outcome.status = "ok"
    /\ suppressed(totals(read_inputs(args))).transm_rad_others
          = <<Frac(1, 8), Frac(1, 4), Frac(1, 8)>>

\* a call of rad_intercpt_sub_daily whose pressure, transmittance and angles
\* are in their valid ranges
ValidFluxArguments ==
    /\ fn = "rad_intercpt_sub_daily"
    /\ PressureInRange(args[3])
    /\ Le(Zero, args[4]) /\ Le(args[4], One)
    /\ \A i \in 1..Len(args[5]) : Le(Zero, args[5][i]) /\ Le(args[5][i], Num(90))

SuppressedValue(crop_list, i) ==
    Mul(StandAlone(crop_list[i]), Sub(One, StandAlone(crop_list[3 - i])))

\* C24: rad_intercpt_wallace, for two species with k, LAI >= 0 and positive
\* heights, returns I_1 and I_2 whose sum is 1 - T_1 * T_2 whatever the
\* heights are, each I_i lying between its suppressed value S_i = D_i * T_other
\* and its stand-alone value D_i.
C24_WallaceConservesTotal ==
    (/\ fn = "rad_intercpt_wallace"
     /\ Len(args) = 2
     /\ \A i \in 1..2 : /\ Len(args[i]) = 3
                         /\ args[i][1] >= 0 /\ args[i][2] >= 0 /\ args[i][3] > 0)
    => /\ outcome.status = "ok"
       /\ Eq(Add(outcome.value[1], outcome.value[2]), CanopyInterception(args))
       /\ \A i \in 1..2 :
             /\ Le(SuppressedValue(args, i), outcome.value[i])
             /\ Le(outcome.value[i], StandAlone(args[i]))

\* two unlike species of unequal heights, the first strictly between its
\* suppressed and its stand-alone value
C24_Witness ==
    /\ fn = "rad_intercpt_wallace"
    /\ args = <<<<1, 1, 1>>, <<2, 1, 2>>>>
    /\ outcome.status = "ok"
    /\ Lt(SuppressedValue(args, 1), outcome.value[1])
    /\ Lt(outcome.value[1], StandAlone(args[1]))

\* the (k, LAI) pairs of a list of (k, LAI, height) descriptors
WithoutHeights(crop_list) ==
    [i \in 1..Len(crop_list) |-> <<crop_list[i][1], crop_list[i][2]>>]

\* every species of the list has the height of the first
EqualHeights(crop_list) ==
    \A i \in 1..Len(crop_list) : crop_list[i][3] = crop_list[1][3]

PositiveHeights ==
    /\ fn = "rad_intercpt_cycles"
    /\ Len(args) >= 1
    /\ \A i \in 1..Len(args) : args[i][3] > 0

\* height_weight_fact takes its last branch, which divides by
\* number_species - 1
TallerBranch(height_dom, dominant_fact, suppressed_fact, number_species) ==
    /\ precondition(height_dom, dominant_fact, suppressed_fact, number_species)
    /\ ~Eq(height_dom, One)
    /\ ~Lt(height_dom, One)

\* the sum of the height dominance factors is N, and with one species the
\* factor is 1 and the last branch of height_weight_fact is not taken
DominanceSumsToCount(s) ==
    /\ Eq(sum(s.height_dom), Num(s.number_species))
    /\ s.number_species = 1
          => /\ s.height_dom[1] = One
             /\ ~TallerBranch(s.height_dom[1], s.dominant_fact[1],
                              s.suppressed_fact[1], s.number_species)

\* C26 as stated: the height dominance factors H_i = N * height_i /
\* sum(height) of rad_intercpt_cycles sum to N and each lies in the open
\* interval (0, N) for positive heights; with N = 1 the factor is exactly 1 and
\* the last branch of height_weight_fact is never reached with
\* number_species = 1.
C26_DominanceInOpenInterval ==
    PositiveHeights
    => \A s \in {cycles_state(args)} :
          /\ DominanceSumsToCount(s)
          /\ \A i \in 1..Len(args) :
                /\ Lt(Zero, s.height_dom[i])
                /\ Lt(s.height_dom[i], Num(Len(args)))

\* C26, amended: the factors sum to N and each lies in (0, N]: strictly below
\* N when N >= 2, and exactly 1 = N when N = 1, where the last branch of
\* height_weight_fact is never reached.
C26_DominanceSumsToCount ==
    PositiveHeights
    => \A s \in {cycles_state(args)} :
          /\ DominanceSumsToCount(s)
          /\ \A i \in 1..Len(args) :
                /\ Lt(Zero, s.height_dom[i])
                /\ Le(s.height_dom[i], Num(Len(args)))
                /\ Eq(s.height_dom[i], Num(Len(args))) <=> Len(args) = 1

\* one species alone: its factor is 1, which is N
C26_Witness ==
    /\ fn = "rad_intercpt_cycles"
    /\ args = <<<<1, 1, 2>>>>
    /\ outcome = Returned(<<Frac(1, 2)>>)
    /\ cycles_state(args).height_dom = <<One>>

\* C27: rad_intercpt_apsim assigns 0 to every species whose stand-alone
\* interception 1 - exp(-k_i * LAI_i) is not positive (k_i * LAI_i = 0, or
\* below 0), the proportional share not being evaluated for it; when every
\* k_i * LAI_i is 0 it returns all zeros, the division by the zero sum of the
\* products (0/0, nan) never being made.
C27_ApsimZeroWithoutShare ==
    fn = "rad_intercpt_apsim"
    => /\ outcome.status = "ok"
       /\ Len(outcome.value) = Len(args)
       /\ \A i \in 1..Len(args) :
             args[i][1] * args[i][2] <= 0 => outcome.value[i] = Zero
       /\ (\A i \in 1..Len(args) : args[i][1] * args[i][2] = 0)
             => outcome.value = [i \in 1..Len(args) |-> Zero]

\* two species without leaves: the sum of the products is zero
C27_Witness ==
    /\ fn = "rad_intercpt_apsim"
    /\ args = <<<<1, 0>>, <<2, 0>>>>
    /\ outcome = Returned(<<Zero, Zero>>)

=============================================================================
